---- MODULE Spec2Model ----
(***************************************************************************)
(* The capacity calculation engine of the What-If dashboard                *)
(* (frontend/src/engine/calculator.js): calculateEffectiveCapacity,        *)
(* applyTimelineShifts and calculateScenario, run step by step.            *)
(*                                                                         *)
(* JavaScript objects used as dictionaries are functions with a finite     *)
(* domain; a key that is not in the DOMAIN reads as undefined.  The        *)
(* month -> hours objects of the inputs (monthly_capacity, monthly_demand) *)
(* and every copy the engine makes of them live in `heap`, and the records *)
(* hold references (indices into heap), so that a write through an alias   *)
(* of an input object is a write to the input.  Hours are integers.        *)
(* Sequences are 1-based: month index idx of the code is position idx + 1. *)
(***************************************************************************)
EXTENDS Integers, Sequences, FiniteSets, TLC

\* ------------------------------------------------------------ bounds
MaxHours == 2          \* capacities and demands of the inputs are 0..MaxHours
MaxClock == 1          \* Date.now() ranges over 0..MaxClock

\* ------------------------------------------------------------ constants
DefaultHours == 160    \* `resource.hoursPerMonth || 160`

MonthNames == <<"Jan", "Feb">>
ProjectIds == <<"project_0", "project_1", "project_2">>
GhostId == "project_x"      \* an id that matches no project record

\* (team, role, location) of the buckets and projects; characters are
\* one-letter strings so that toLowerCase and the '|' join are computed.
IdentX == [team |-> <<"D">>, role |-> <<"u">>, location |-> <<"l">>]
IdentY == [team |-> <<"S">>, role |-> <<"u">>, location |-> <<"l">>]
Idents == {IdentX, IdentY}

\* ------------------------------------------------------------ helpers
Range(s) == {s[i] : i \in DOMAIN s}

Put(obj, k, v) == [x \in (DOMAIN obj) \cup {k} |-> IF x = k THEN v ELSE obj[x]]

\* obj[k] || 0 for an object of numbers
OrZero(obj, k) == IF k \in DOMAIN obj THEN obj[k] ELSE 0

RECURSIVE SumOver(_, _)
SumOver(S, f) ==
    IF S = {} THEN 0
    ELSE LET x == CHOOSE y \in S : TRUE IN f[x] + SumOver(S \ {x}, f)

RECURSIVE SumSeq(_)
SumSeq(s) == IF s = <<>> THEN 0 ELSE Head(s) + SumSeq(Tail(s))

\* ------------------------------------------------------------ getBucketKey
ToLowerCase(c) == CASE c = "D" -> "d" [] c = "S" -> "s" [] OTHER -> c

RECURSIVE LowerSeq(_)
LowerSeq(s) == IF s = <<>> THEN <<>> ELSE <<ToLowerCase(Head(s))>> \o LowerSeq(Tail(s))

getBucketKey(team, role, location) ==
    LowerSeq(team \o <<"|">> \o role \o <<"|">> \o location)

\* ------------------------------------------------------------ calculateEffectiveCapacity
\* `monthly_capacity: { ...bucket.monthly_capacity }`: a fresh object holding a copy.
ShareMonthlyCapacity(h, bucket) ==
    [heap |-> h, ref |-> bucket.monthly_capacity]

CopyMonthlyCapacity(h, bucket) ==
    [heap |-> Append(h, h[bucket.monthly_capacity]), ref |-> Len(h) + 1]

\* A variant that keeps the first bucket of a key.
BaselineStepKeepFirst(st, bucket) ==
    LET key == getBucketKey(bucket.team, bucket.role, bucket.location)
        c   == CopyMonthlyCapacity(st.heap, bucket)
    IN  IF key \in DOMAIN st.effectiveCapacity THEN st
        ELSE [st EXCEPT !.heap = c.heap,
                        !.effectiveCapacity =
                            Put(@, key, [bucket EXCEPT !.monthly_capacity = c.ref])]

\* One iteration of baselineCapacity.forEach.
BaselineStep(st, bucket) ==
    LET key == getBucketKey(bucket.team, bucket.role, bucket.location)
        c   == CopyMonthlyCapacity(st.heap, bucket)
    IN  [st EXCEPT !.heap = c.heap,
                   !.effectiveCapacity =
                       Put(@, key, [bucket EXCEPT !.monthly_capacity = c.ref])]

RECURSIVE BaselineLoop(_, _)
BaselineLoop(st, buckets) ==
    IF buckets = <<>> THEN st
    ELSE BaselineLoop(BaselineStep(st, Head(buckets)), Tail(buckets))

\* A variant that takes the field as it is.
HoursRaw(resource) == resource.hoursPerMonth

\* `resource.hoursPerMonth || 160`
HoursOrDefault(resource) ==
    IF resource.hoursPerMonth = 0 THEN DefaultHours ELSE resource.hoursPerMonth

\* months.forEach(month => obj[month] = (obj[month] || 0) + hoursToAdd)
RECURSIVE AddHours(_, _, _)
AddHours(obj, ms, hours) ==
    IF ms = <<>> THEN obj
    ELSE AddHours(Put(obj, Head(ms), OrZero(obj, Head(ms)) + hours), Tail(ms), hours)

VirtualId(now) == <<"virtual_", now>>

\* One iteration of virtualResources.forEach; `now` is what Date.now() returns.
VirtualStep(st, resource, ms, now) ==
    LET key == getBucketKey(resource.team, resource.role, resource.location)
    IN  IF key \in DOMAIN st.effectiveCapacity
        THEN LET ref == st.effectiveCapacity[key].monthly_capacity
             IN  [st EXCEPT !.heap[ref] = AddHours(@, ms, HoursOrDefault(resource))]
        ELSE LET monthlyCapacity == [m \in Range(ms) |-> HoursOrDefault(resource)]
             IN  [st EXCEPT
                    !.heap = Append(@, monthlyCapacity),
                    !.effectiveCapacity = Put(@, key,
                        [id |-> VirtualId(now),
                         team |-> resource.team,
                         role |-> resource.role,
                         location |-> resource.location,
                         monthly_capacity |-> Len(st.heap) + 1,
                         isVirtual |-> TRUE])]

\* ------------------------------------------------------------ applyTimelineShifts
\* monthIndex[month]: months.forEach((month, idx) => monthIndex[month] = idx), so a
\* label that occurs twice keeps its last index.
MonthIndex(ms, month) ==
    CHOOSE i \in DOMAIN ms : ms[i] = month /\ \A j \in DOMAIN ms : ms[j] = month => j <= i

\* A variant that moves hours bound for a month outside the list to the first
\* or the last month.
ShiftedDemandClamped(demand, shift, ms) ==
    LET moved   == {m \in DOMAIN demand : m \in Range(ms)}
        clamp(i) == IF i < 1 THEN 1 ELSE IF i > Len(ms) THEN Len(ms) ELSE i
        dest(m) == ms[clamp(MonthIndex(ms, m) + shift)]
    IN  [t \in {dest(m) : m \in moved} |->
            SumOver({m \in moved : dest(m) = t}, demand)]

\* The shiftedDemand object built by the Object.entries(...).forEach loop.
ShiftedDemand(demand, shift, ms) ==
    LET moved   == {m \in DOMAIN demand :
                       m \in Range(ms) /\ MonthIndex(ms, m) + shift \in DOMAIN ms}
        dest(m) == ms[MonthIndex(ms, m) + shift]
    IN  [t \in {dest(m) : m \in moved} |->
            SumOver({m \in moved : dest(m) = t}, demand)]

\* `!shift || shift === 0`
NoShift(timelineShifts, id) ==
    id \notin DOMAIN timelineShifts \/ timelineShifts[id] = 0

\* The callback of projects.map for one project: the project record returned and
\* the heap after it.
ShiftProject(h, project, timelineShifts, ms) ==
    IF NoShift(timelineShifts, project.id)
    THEN [heap |-> h, project |-> project]
    ELSE LET shift == timelineShifts[project.id]
             shiftedDemand == ShiftedDemand(h[project.monthly_demand], shift, ms)
         IN  [heap |-> Append(h, shiftedDemand),
              project |-> [timelineShift |-> shift]
                          @@ [project EXCEPT !.monthly_demand = Len(h) + 1]]

RECURSIVE ShiftLoop(_, _, _, _)
ShiftLoop(st, projs, timelineShifts, ms) ==
    IF projs = <<>> THEN st
    ELSE LET r == ShiftProject(st.heap, Head(projs), timelineShifts, ms)
         IN  ShiftLoop([st EXCEPT !.heap = r.heap,
                                  !.shiftedProjects = Append(@, r.project)],
                       Tail(projs), timelineShifts, ms)

\* ------------------------------------------------------------ calculateScenario, steps 3-5
RECURSIVE BuildProjectMap(_, _)
BuildProjectMap(map, projs) ==
    IF projs = <<>> THEN map
    ELSE BuildProjectMap(Put(map, Head(projs).id, Head(projs)), Tail(projs))

\* remainingCapacity[key] = { ...bucket.monthly_capacity }: a private copy, held by value.
InitRemaining(h, effectiveCapacity) ==
    [key \in DOMAIN effectiveCapacity |-> h[effectiveCapacity[key].monthly_capacity]]

InitUtilization(h, effectiveCapacity, ms) ==
    [key \in DOMAIN effectiveCapacity |->
        [monthly_utilization |-> [m \in Range(ms) |-> 0],
         monthly_consumed    |-> [m \in Range(ms) |-> 0],
         monthly_remaining   |->
             [m \in Range(ms) |-> OrZero(h[effectiveCapacity[key].monthly_capacity], m)]]
        @@ effectiveCapacity[key]]

\* priorityOrder.forEach((projectId, priority) => ...): priority + 1 is the position.
\* A variant without the `if (project)` guard: an id with no project gets an
\* entry of its own.
RECURSIVE InitProjectStatusAll(_, _, _, _)
InitProjectStatusAll(status, projectMap, order, i) ==
    IF i > Len(order) THEN status
    ELSE LET project == IF order[i] \in DOMAIN projectMap
                        THEN projectMap[order[i]] ELSE <<>>
             entry == [priority |-> i,
                       monthlyStatus |-> <<>>,
                       totalDeficit |-> 0,
                       bucketKey |-> IF order[i] \in DOMAIN projectMap
                                     THEN getBucketKey(project.team, project.role,
                                                       project.location)
                                     ELSE <<>>]
                      @@ project
         IN  InitProjectStatusAll(Put(status, order[i], entry), projectMap, order, i + 1)

RECURSIVE InitProjectStatus(_, _, _, _)
InitProjectStatus(status, projectMap, order, i) ==
    IF i > Len(order) THEN status
    ELSE IF order[i] \notin DOMAIN projectMap
         THEN InitProjectStatus(status, projectMap, order, i + 1)
         ELSE LET project == projectMap[order[i]]
                  entry == [priority |-> i,
                            monthlyStatus |-> <<>>,
                            totalDeficit |-> 0,
                            bucketKey |-> getBucketKey(project.team, project.role,
                                                       project.location)]
                           @@ project
              IN  InitProjectStatus(Put(status, order[i], entry), projectMap, order, i + 1)

InitTracking(st, order, ms) ==
    LET projectMap == BuildProjectMap(<<>>, st.shiftedProjects)
    IN  [st EXCEPT
            !.projectMap = projectMap,
            !.remainingCapacity = InitRemaining(st.heap, st.effectiveCapacity),
            !.bucketUtilization = InitUtilization(st.heap, st.effectiveCapacity, ms),
            !.projectStatus = InitProjectStatus(<<>>, projectMap, order, 1),
            !.totalDeficit = 0]

\* ------------------------------------------------------------ calculateScenario, step 6
\* A variant that carries the unused hours of earlier months forward.
AvailableBanked(remainingCapacity, bucketKey, month) ==
    IF bucketKey \in DOMAIN remainingCapacity
    THEN SumOver({m \in DOMAIN remainingCapacity[bucketKey] :
                     \E i, j \in DOMAIN MonthNames :
                        i <= j /\ MonthNames[i] = m /\ MonthNames[j] = month},
                 remainingCapacity[bucketKey])
    ELSE 0

\* A variant that pools the month's hours of all buckets.
AvailablePooled(remainingCapacity, bucketKey, month) ==
    SumOver(DOMAIN remainingCapacity,
            [k \in DOMAIN remainingCapacity |-> OrZero(remainingCapacity[k], month)])

\* `remainingCapacity[bucketKey]?.[month] || 0`
AvailableCapacity(remainingCapacity, bucketKey, month) ==
    IF bucketKey \in DOMAIN remainingCapacity
    THEN OrZero(remainingCapacity[bucketKey], month)
    ELSE 0

\* `const deficit = demand - available` of the partial branch
PartialDeficitWhole(demand, available) == demand

PartialDeficit(demand, available) == demand - available

\* The monthlyStatus[month] record of the four branches.
MonthStatus(demand, available) ==
    IF demand = 0
    THEN [status |-> "none", demand |-> 0, allocated |-> 0, deficit |-> 0]
    ELSE IF available >= demand
    THEN [status |-> "staffed", demand |-> demand, allocated |-> demand, deficit |-> 0]
    ELSE IF available > 0
    THEN [status |-> "partial", demand |-> demand, allocated |-> available,
          deficit |-> PartialDeficit(demand, available)]
    ELSE [status |-> "unstaffed", demand |-> demand, allocated |-> 0, deficit |-> demand]

\* remainingCapacity after the branch: `-= demand` (staffed), `= 0` (partial).
DeductRemainingAdds(remainingCapacity, bucketKey, month, ms) ==
    IF bucketKey \notin DOMAIN remainingCapacity THEN remainingCapacity
    ELSE IF ms.status = "staffed"
    THEN [remainingCapacity EXCEPT ![bucketKey][month] = @ + ms.demand]
    ELSE IF ms.status = "partial"
    THEN [remainingCapacity EXCEPT ![bucketKey] = Put(@, month, 0)]
    ELSE remainingCapacity

DeductRemaining(remainingCapacity, bucketKey, month, ms) ==
    IF bucketKey \notin DOMAIN remainingCapacity THEN remainingCapacity
    ELSE IF ms.status = "staffed"
    THEN [remainingCapacity EXCEPT ![bucketKey][month] = @ - ms.demand]
    ELSE IF ms.status = "partial"
    THEN [remainingCapacity EXCEPT ![bucketKey] = Put(@, month, 0)]
    ELSE remainingCapacity

\* bucketUtilization after the branch: monthly_consumed and monthly_remaining.
\* A variant that books the whole demand of a partial month as consumed.
UpdateUtilizationByDemand(bucketUtilization, bucketKey, month, ms) ==
    IF bucketKey \notin DOMAIN bucketUtilization THEN bucketUtilization
    ELSE IF ms.status \in {"staffed", "partial"}
    THEN [bucketUtilization EXCEPT
            ![bucketKey].monthly_consumed[month] = @ + ms.demand,
            ![bucketKey].monthly_remaining[month] = @ - ms.demand]
    ELSE bucketUtilization

UpdateUtilization(bucketUtilization, bucketKey, month, ms) ==
    IF bucketKey \notin DOMAIN bucketUtilization THEN bucketUtilization
    ELSE IF ms.status = "staffed"
    THEN [bucketUtilization EXCEPT
            ![bucketKey].monthly_consumed[month] = @ + ms.demand,
            ![bucketKey].monthly_remaining[month] = @ - ms.demand]
    ELSE IF ms.status = "partial"
    THEN [bucketUtilization EXCEPT
            ![bucketKey].monthly_consumed[month] = @ + ms.allocated,
            ![bucketKey].monthly_remaining[month] = 0]
    ELSE bucketUtilization

\* `totalDeficit += deficit`, in the partial and the unstaffed branch only.
AddDeficitPartialOnly(total, ms) ==
    IF ms.status = "partial" THEN total + ms.deficit ELSE total

AddDeficit(total, ms) ==
    IF ms.status \in {"partial", "unstaffed"} THEN total + ms.deficit ELSE total

\* The body of the inner loop for one (month, projectId).
AllocStep(st, month, projectId) ==
    IF projectId \notin DOMAIN st.projectMap THEN st
    ELSE LET project   == st.projectMap[projectId]
             bucketKey == getBucketKey(project.team, project.role, project.location)
             demand    == OrZero(st.heap[project.monthly_demand], month)
             available == AvailableCapacity(st.remainingCapacity, bucketKey, month)
             ms        == MonthStatus(demand, available)
         IN  [st EXCEPT
                !.projectStatus[projectId].monthlyStatus = Put(@, month, ms),
                !.projectStatus[projectId].totalDeficit = AddDeficit(@, ms),
                !.totalDeficit = AddDeficit(@, ms),
                !.remainingCapacity = DeductRemaining(@, bucketKey, month, ms),
                !.bucketUtilization = UpdateUtilization(@, bucketKey, month, ms)]

\* ------------------------------------------------------------ calculateScenario, step 7 and utilization
\* A variant that calls a project partial as soon as it received any hours.
OverallStatusByHours(monthlyStatus) ==
    LET short == \E m \in DOMAIN monthlyStatus : monthlyStatus[m].deficit > 0
        some  == \E m \in DOMAIN monthlyStatus : monthlyStatus[m].allocated > 0
    IN  IF short /\ some THEN "partial"
        ELSE IF short THEN "unstaffed"
        ELSE "staffed"

OverallStatus(monthlyStatus) ==
    LET hasAnyStaffed   == \E m \in DOMAIN monthlyStatus : monthlyStatus[m].status = "staffed"
        hasAnyUnstaffed == \E m \in DOMAIN monthlyStatus :
                               monthlyStatus[m].status \in {"partial", "unstaffed"}
    IN  IF hasAnyUnstaffed /\ hasAnyStaffed THEN "partial"
        ELSE IF hasAnyUnstaffed THEN "unstaffed"
        ELSE "staffed"

\* The arithmetic of `Math.round((consumed / capacity) * 100)` is that of IEEE 754
\* doubles: the quotient is rounded to 53 significant bits (ties to even), the
\* product by 100 is rounded to 53 bits again, and Math.round takes
\* floor(x + 0.5) of that.  Significands are sequences of bits, least
\* significant bit first, so that no intermediate value exceeds the integers
\* of the model checker.
Precision == 53

RECURSIVE Zeros(_)
Zeros(n) == IF n <= 0 THEN <<>> ELSE <<0>> \o Zeros(n - 1)

RECURSIVE BitsValue(_)
BitsValue(bits) == IF bits = <<>> THEN 0 ELSE Head(bits) + 2 * BitsValue(Tail(bits))

RECURSIVE BitsAdd(_, _, _)
BitsAdd(a, b, carry) ==
    IF a = <<>> /\ b = <<>> THEN (IF carry = 1 THEN <<1>> ELSE <<>>)
    ELSE LET x   == IF a = <<>> THEN 0 ELSE Head(a)
             y   == IF b = <<>> THEN 0 ELSE Head(b)
             sum == x + y + carry
         IN  <<sum % 2>> \o BitsAdd(IF a = <<>> THEN a ELSE Tail(a),
                                    IF b = <<>> THEN b ELSE Tail(b), sum \div 2)

\* A significand of more than 53 bits cut to 53, ties to even; `exp` is the
\* weight of the lowest bit as a power of two.
RoundToPrecision(bits, exp) ==
    LET d == Len(bits) - Precision
    IN  IF d <= 0 THEN [bits |-> bits, exp |-> exp]
        ELSE LET kept   == SubSeq(bits, d + 1, Len(bits))
                 guard  == bits[d]
                 sticky == \E i \in 1..(d - 1) : bits[i] = 1
                 up     == guard = 1 /\ (sticky \/ kept[1] = 1)
                 r      == IF up THEN BitsAdd(kept, <<1>>, 0) ELSE kept
             IN  IF Len(r) > Precision
                 THEN [bits |-> Tail(r), exp |-> exp + d + 1]
                 ELSE [bits |-> r, exp |-> exp + d]

\* num / den scaled into [1, 2): the exponent of the quotient.
RECURSIVE Normalize(_, _, _)
Normalize(num, den, e) ==
    IF num >= 2 * den THEN Normalize(num, 2 * den, e + 1)
    ELSE IF num < den THEN Normalize(2 * num, den, e - 1)
    ELSE [num |-> num, den |-> den, exp |-> e]

\* Long division: the next n bits of rem / den below the binary point, lowest
\* bit first, followed by what is left.
RECURSIVE DivBits(_, _, _, _)
DivBits(rem, den, n, acc) ==
    IF n = 0 THEN [bits |-> acc, rem |-> rem]
    ELSE IF 2 * rem >= den
         THEN DivBits(2 * rem - den, den, n - 1, <<1>> \o acc)
         ELSE DivBits(2 * rem, den, n - 1, <<0>> \o acc)

\* The double nearest to num / den, for num, den > 0.
FloatDivide(num, den) ==
    LET nz == Normalize(num, den, 0)
        q  == DivBits(nz.num - nz.den, nz.den, Precision - 1, <<1>>)
        up == \/ 2 * q.rem > nz.den
              \/ 2 * q.rem = nz.den /\ q.bits[1] = 1
        r  == IF up THEN BitsAdd(q.bits, <<1>>, 0) ELSE q.bits
    IN  IF Len(r) > Precision
        THEN [bits |-> Tail(r), exp |-> nz.exp - Precision + 2]
        ELSE [bits |-> r, exp |-> nz.exp - Precision + 1]

\* The double nearest to x * 100: 100 = 64 + 32 + 4.
FloatTimes100(x) ==
    LET sum == BitsAdd(Zeros(6) \o x.bits,
                       BitsAdd(Zeros(5) \o x.bits, Zeros(2) \o x.bits, 0), 0)
    IN  RoundToPrecision(sum, x.exp)

\* Math.round of a positive double: floor(x + 0.5).
MathRound(x) ==
    LET k == 0 - x.exp
    IN  IF k <= 0 THEN BitsValue(Zeros(0 - k) \o x.bits)
        ELSE BitsValue(SubSeq(x.bits, k + 1, Len(x.bits)))
                 + (IF k <= Len(x.bits) THEN x.bits[k] ELSE 0)

\* consumed / capacity * 100 rounded to the nearest integer, a half upwards, in
\* exact arithmetic.
RoundPercentExact(consumed, capacity) == (200 * consumed + capacity) \div (2 * capacity)

\* `Math.round((consumed / capacity) * 100)` for capacity > 0 and consumed >= 0
\* (consumed is a sum of allocations).  The two roundings move the product by
\* less than 2^-51 of its value, and an exact value that is not a half lies at
\* least 1 / (2 * capacity) from the nearest half, so the doubles can round
\* differently from exact arithmetic only where the exact value is a half:
\* only there are the bits worked out.
RoundPercent(consumed, capacity) ==
    IF (200 * consumed) % (2 * capacity) = capacity
    THEN MathRound(FloatTimes100(FloatDivide(consumed, capacity)))
    ELSE RoundPercentExact(consumed, capacity)

Utilization(consumed, capacity) ==
    IF capacity > 0 THEN RoundPercent(consumed, capacity) ELSE 0

Summarize(st, ms) ==
    [st EXCEPT
        !.projectStatus =
            [id \in DOMAIN @ |->
                [overallStatus |-> OverallStatus(@[id].monthlyStatus)] @@ @[id]],
        !.bucketUtilization =
            [key \in DOMAIN @ |->
                [@[key] EXCEPT !.monthly_utilization =
                    [m \in DOMAIN @ |->
                        IF m \in Range(ms)
                        THEN Utilization(st.bucketUtilization[key].monthly_consumed[m],
                                 OrZero(st.heap[st.effectiveCapacity[key].monthly_capacity], m))
                        ELSE @[m]]]]]

\* ------------------------------------------------------------ calculateScenario as a whole
EmptyRun(h) ==
    [heap |-> h,
     effectiveCapacity |-> <<>>,
     shiftedProjects |-> <<>>,
     projectMap |-> <<>>,
     remainingCapacity |-> <<>>,
     projectStatus |-> <<>>,
     bucketUtilization |-> <<>>,
     totalDeficit |-> 0]

RECURSIVE VirtualLoop(_, _, _, _)
VirtualLoop(st, resources, ms, now) ==
    IF resources = <<>> THEN st
    ELSE VirtualLoop(VirtualStep(st, Head(resources), ms, now), Tail(resources), ms, now)

\* months.forEach(month => priorityOrder.forEach(projectId => ...)) from position (i, j).
RECURSIVE AllocLoop(_, _, _, _, _)
AllocLoop(st, ms, order, i, j) ==
    IF i > Len(ms) THEN st
    ELSE IF j > Len(order) THEN AllocLoop(st, ms, order, i + 1, 1)
    ELSE AllocLoop(AllocStep(st, ms[i], order[j]), ms, order, i, j + 1)

\* The run of calculateScenario on a heap h holding the inputs' month objects, with
\* Date.now() = now throughout: the final values of all its locals.
calculateScenario(h, capacity, projs, order, resources, shifts, ms, now) ==
    LET s1 == VirtualLoop(BaselineLoop(EmptyRun(h), capacity), resources, ms, now)
        s2 == ShiftLoop(s1, projs, shifts, ms)
        s3 == InitTracking(s2, order, ms)
        s4 == AllocLoop(s3, ms, order, 1, 1)
    IN  Summarize(s4, ms)

\* The returned object with every month object read through the heap.
Deref(h, rec, field) == [rec EXCEPT ![field] = h[@]]

ResultOf(st, ms) ==
    [effectiveCapacity |->
        [k \in DOMAIN st.effectiveCapacity |->
            Deref(st.heap, st.effectiveCapacity[k], "monthly_capacity")],
     bucketUtilization |->
        [k \in DOMAIN st.bucketUtilization |->
            Deref(st.heap, st.bucketUtilization[k], "monthly_capacity")],
     projectStatus |->
        [id \in DOMAIN st.projectStatus |->
            Deref(st.heap, st.projectStatus[id], "monthly_demand")],
     totalDeficit |-> st.totalDeficit,
     months |-> ms]

\* ------------------------------------------------------------ state
VARIABLES
    baselineCapacity,   \* input: sequence of bucket records
    projects,           \* input: sequence of project records
    priorityOrder,      \* input: sequence of project ids
    virtualResources,   \* input: sequence of virtual resources
    timelineShifts,     \* input: project id -> shift
    months,             \* input: sequence of month labels
    heap,               \* the month -> hours objects, by reference
    clock,              \* what Date.now() returns
    pc,                 \* position of the run of calculateScenario
    vi,                 \* position of virtualResources.forEach
    mi,                 \* position of months.forEach
    pi,                 \* position of priorityOrder.forEach
    effectiveCapacity,
    shiftedProjects,
    projectMap,
    remainingCapacity,
    projectStatus,
    bucketUtilization,
    totalDeficit

inputs == <<baselineCapacity, projects, priorityOrder, virtualResources,
            timelineShifts, months>>
locals == <<effectiveCapacity, shiftedProjects, projectMap, remainingCapacity,
            projectStatus, bucketUtilization, totalDeficit>>
vars == <<inputs, heap, clock, pc, vi, mi, pi, locals>>

Cur ==
    [heap |-> heap,
     effectiveCapacity |-> effectiveCapacity,
     shiftedProjects |-> shiftedProjects,
     projectMap |-> projectMap,
     remainingCapacity |-> remainingCapacity,
     projectStatus |-> projectStatus,
     bucketUtilization |-> bucketUtilization,
     totalDeficit |-> totalDeficit]

Becomes(st) ==
    /\ heap' = st.heap
    /\ effectiveCapacity' = st.effectiveCapacity
    /\ shiftedProjects' = st.shiftedProjects
    /\ projectMap' = st.projectMap
    /\ remainingCapacity' = st.remainingCapacity
    /\ projectStatus' = st.projectStatus
    /\ bucketUtilization' = st.bucketUtilization
    /\ totalDeficit' = st.totalDeficit

Result == ResultOf(Cur, months)

\* ------------------------------------------------------------ inputs
\* Two families of inputs.  Pairs: two projects over two months, the first project
\* on the baseline bucket, with one lever away from its default: any priority
\* order (ids may repeat or match no project), or one virtual resource, or any
\* shift map, or all three at once (reversed order, a resource of one hour, a
\* shift).  Triples: three projects over one month with every permutation
\* as priority order.
Hours == {0, 1, MaxHours}
VirtualHours == {-1, 0, 1, MaxHours}
HourMaps(ms) == [Range(ms) -> Hours]

BucketRecord(i, ident, ref) ==
    [id |-> <<"bucket_", i>>, team |-> ident.team, role |-> ident.role,
     location |-> ident.location, monthly_capacity |-> ref]

\* total_demand is the sum of the monthly demand, as the parser delivers it.
ProjectRecord(i, ident, ref, demand) ==
    [id |-> ProjectIds[i], team |-> ident.team, role |-> ident.role,
     location |-> ident.location, monthly_demand |-> ref,
     total_demand |-> SumOver(DOMAIN demand, demand)]

Resource(ident, n) ==
    [team |-> ident.team, role |-> ident.role, location |-> ident.location,
     hoursPerMonth |-> n]

Resources == {Resource(x, n) : x \in Idents, n \in VirtualHours}

Known(n) == {ProjectIds[i] : i \in 1..n}
DefaultOrder(n) == SubSeq(ProjectIds, 1, n)
PriorityOrders(n) == [1..n -> Known(n) \cup {GhostId}]
PermutationOrders(n) ==
    {[i \in 1..n |-> ProjectIds[q[i]]] : q \in Permutations(1..n)}

ShiftValues == {-1, 0, 1, Len(MonthNames)}
ShiftMaps(n) == UNION {[S -> ShiftValues] : S \in SUBSET Known(n)}

MixedShifts ==
    {ProjectIds[1] :> 1, ProjectIds[2] :> -1,
     ProjectIds[1] :> 1 @@ ProjectIds[2] :> 1,
     ProjectIds[1] :> -1 @@ ProjectIds[2] :> Len(MonthNames)}

Lever(o, r, s) == [order |-> o, resources |-> r, shifts |-> s]

PairLevers ==
    {Lever(o, <<>>, <<>>) : o \in PriorityOrders(2)}
    \cup {Lever(DefaultOrder(2), <<r>>, <<>>) : r \in Resources}
    \cup {Lever(DefaultOrder(2), <<>>, s) : s \in ShiftMaps(2)}
    \cup {Lever(<<ProjectIds[2], ProjectIds[1]>>, <<Resource(x, 1)>>, s) :
            x \in Idents, s \in MixedShifts}

TripleLevers == {Lever(o, <<>>, <<>>) : o \in PermutationOrders(3)}

InitFrom(bucket, n, ms, cap, demand, ident, lever) ==
    /\ heap = <<cap>> \o [i \in 1..n |-> demand[i]]
    /\ baselineCapacity = <<BucketRecord(0, bucket, 1)>>
    /\ projects = [i \in 1..n |-> ProjectRecord(i, ident[i], 1 + i, demand[i])]
    /\ priorityOrder = lever.order
    /\ virtualResources = lever.resources
    /\ timelineShifts = lever.shifts
    /\ months = ms
    /\ clock = 0
    /\ pc = "start"
    /\ vi = 1 /\ mi = 1 /\ pi = 1
    /\ effectiveCapacity = <<>>
    /\ shiftedProjects = <<>>
    /\ projectMap = <<>>
    /\ remainingCapacity = <<>>
    /\ projectStatus = <<>>
    /\ bucketUtilization = <<>>
    /\ totalDeficit = 0

InitWith(n, ms, cap, demand, ident, lever) ==
    InitFrom(IdentX, n, ms, cap, demand, ident, lever)

InitPair ==
    \E cap \in HourMaps(MonthNames), demand \in [1..2 -> HourMaps(MonthNames)],
       ident \in {f \in [1..2 -> Idents] : f[1] = IdentX}, lever \in PairLevers :
        InitWith(2, MonthNames, cap, demand, ident, lever)

InitTriple ==
    \E cap \in HourMaps(<<"Jan">>), demand \in [1..3 -> HourMaps(<<"Jan">>)],
       ident \in [1..3 -> Idents], lever \in TripleLevers :
        InitWith(3, <<"Jan">>, cap, demand, ident, lever)

Init == InitPair \/ InitTriple

\* Hours of the size of real data, for the figures of a single month: two
\* projects on one bucket or on two, in either order, or with a resource and a
\* shift.
ExampleHours == {0, 23, 40, 60, 100}

ExampleLevers ==
    {Lever(o, <<>>, <<>>) : o \in PermutationOrders(2)}
    \cup {Lever(DefaultOrder(2), <<Resource(x, 40)>>, ProjectIds[2] :> 1) : x \in Idents}

InitExample ==
    \E cap \in [{"Jan"} -> ExampleHours], demand \in [1..2 -> [{"Jan"} -> ExampleHours]],
       ident \in {f \in [1..2 -> Idents] : f[1] = IdentX}, lever \in ExampleLevers :
        InitWith(2, <<"Jan">>, cap, demand, ident, lever)

\* ------------------------------------------------------------ the run, step by step
\* calculateEffectiveCapacity, the baselineCapacity.forEach loop.
Aggregate ==
    /\ pc = "start"
    /\ Becomes(BaselineLoop(EmptyRun(heap), baselineCapacity))
    /\ pc' = "virtual"
    /\ vi' = 1
    /\ UNCHANGED <<inputs, clock, mi, pi>>

\* Time passes.  The clock is read by the virtualResources.forEach loop only, so a
\* tick anywhere else is a tick before the next iteration of that loop.
Tick ==
    /\ pc = "virtual"
    /\ vi <= Len(virtualResources)
    /\ clock < MaxClock
    /\ clock' = clock + 1
    /\ UNCHANGED <<inputs, heap, pc, vi, mi, pi, locals>>

\* calculateEffectiveCapacity, one iteration of virtualResources.forEach.
AddVirtual ==
    /\ pc = "virtual"
    /\ vi <= Len(virtualResources)
    /\ Becomes(VirtualStep(Cur, virtualResources[vi], months, clock))
    /\ vi' = vi + 1
    /\ UNCHANGED <<inputs, clock, pc, mi, pi>>

\* applyTimelineShifts.
ShiftDemand ==
    /\ pc = "virtual"
    /\ vi > Len(virtualResources)
    /\ Becomes(ShiftLoop(Cur, projects, timelineShifts, months))
    /\ pc' = "init"
    /\ UNCHANGED <<inputs, clock, vi, mi, pi>>

\* calculateScenario, steps 3 to 5.
Track ==
    /\ pc = "init"
    /\ Becomes(InitTracking(Cur, priorityOrder, months))
    /\ pc' = "alloc"
    /\ mi' = 1
    /\ pi' = 1
    /\ UNCHANGED <<inputs, clock, vi>>

AllocDone == mi > Len(months) \/ Len(priorityOrder) = 0

\* calculateScenario, step 6: one (month, project) of the nested loops.
Allocate ==
    /\ pc = "alloc"
    /\ ~AllocDone
    /\ Becomes(AllocStep(Cur, months[mi], priorityOrder[pi]))
    /\ IF pi < Len(priorityOrder)
       THEN pi' = pi + 1 /\ mi' = mi
       ELSE pi' = 1 /\ mi' = mi + 1
    /\ UNCHANGED <<inputs, clock, pc, vi>>

\* calculateScenario, step 7, the utilization percentages and the return.
Finish ==
    /\ pc = "alloc"
    /\ AllocDone
    /\ Becomes(Summarize(Cur, months))
    /\ pc' = "done"
    /\ UNCHANGED <<inputs, clock, vi, mi, pi>>

Next ==
    \/ Aggregate
    \/ Tick
    \/ AddVirtual
    \/ ShiftDemand
    \/ Track
    \/ Allocate
    \/ Finish

Spec == Init /\ [][Next]_vars

\* One project and up to two virtual resources, of either key and of 0, 1 or
\* MaxHours hours.
ResourceLists ==
    LET R == {Resource(x, n) : x \in Idents, n \in Hours}
    IN  {<<>>} \cup {<<r>> : r \in R} \cup {<<r, q>> : r \in R, q \in R}

InitCapacity ==
    \E cap \in HourMaps(MonthNames), demand \in [1..1 -> HourMaps(MonthNames)],
       ident \in [1..1 -> Idents], resources \in ResourceLists :
        InitWith(1, MonthNames, cap, demand, ident,
                 Lever(DefaultOrder(1), resources, <<>>))

\* The same run on the inputs of InitCapacity.
SpecCapacity == InitCapacity /\ [][Next]_vars

\* One project over three months, its demand given for all of them or for some,
\* under any shift of ShiftRange, with or without a resource.
LongMonths == <<"Jan", "Feb", "Mar">>
ShiftRange == {-7, -3, -2, -1, 0, 1, 2, 3, 7}
PartialHourMaps(ms) == UNION {[S -> Hours] : S \in SUBSET Range(ms)}

InitShift ==
    \E cap \in {[m \in Range(LongMonths) |-> c] : c \in Hours},
       demand \in [1..1 -> PartialHourMaps(LongMonths)],
       ident \in [1..1 -> Idents],
       shifts \in {<<>>} \cup {ProjectIds[1] :> n : n \in ShiftRange},
       resources \in {<<>>, <<Resource(IdentX, 1)>>} :
        InitWith(1, LongMonths, cap, demand, ident,
                 Lever(DefaultOrder(1), resources, shifts))

\* The same run on the inputs of InitShift.
SpecShift == InitShift /\ [][Next]_vars

\* For the priority order: two projects over two months under any order of
\* two ids, or under an order with an unknown id between them, a resource and a
\* shift; and the three projects of InitTriple.
OrderLevers ==
    {Lever(o, <<>>, <<>>) : o \in PriorityOrders(2)}
    \cup {Lever(<<ProjectIds[2], GhostId, ProjectIds[1]>>, <<Resource(IdentY, 1)>>,
                ProjectIds[1] :> 1)}

InitOrder ==
    \/ \E cap \in HourMaps(MonthNames), demand \in [1..2 -> HourMaps(MonthNames)],
          ident \in {f \in [1..2 -> Idents] : f[1] = IdentX}, lever \in OrderLevers :
           InitWith(2, MonthNames, cap, demand, ident, lever)
    \/ InitTriple

\* The same run on the inputs of InitOrder.
SpecOrder == InitOrder /\ [][Next]_vars

\* For the bucket key: a bucket, a project and at most one resource whose team
\* or role may hold the separator.
IdentBarTeam == [team |-> <<"D", "|", "u">>, role |-> <<"l">>, location |-> <<"l">>]
IdentBarRole == [team |-> <<"D">>, role |-> <<"u", "|", "l">>, location |-> <<"l">>]
KeyIdents == {IdentX, IdentY, IdentBarTeam, IdentBarRole}

InitKeys ==
    \E bucket \in KeyIdents, ident \in [1..1 -> KeyIdents],
       cap \in HourMaps(<<"Jan">>), demand \in [1..1 -> HourMaps(<<"Jan">>)],
       resources \in {<<>>} \cup {<<Resource(x, 1)>> : x \in KeyIdents} :
        InitFrom(bucket, 1, <<"Jan">>, cap, demand, ident,
                 Lever(DefaultOrder(1), resources, <<>>))

\* The same run on the inputs of InitKeys.
SpecKeys == InitKeys /\ [][Next]_vars

\* The same run on the inputs of InitExample.
SpecExample == InitExample /\ [][Next]_vars

\* ------------------------------------------------------------ properties
NoDuplicates(s) == \A i, j \in DOMAIN s : s[i] = s[j] => i = j

Statuses == {projectStatus[id].monthlyStatus[m].status :
                id \in DOMAIN projectStatus, m \in Range(months)}

\* The input month objects: the baseline bucket's and the projects'.
InputRefs == 1..(Len(baselineCapacity) + Len(projects))
InputHeap == SubSeq(heap, 1, Len(baselineCapacity) + Len(projects))

\* A second invocation on the inputs of this one, with some levers changed.
Rerun(order, resources, shifts, now) ==
    ResultOf(calculateScenario(InputHeap, baselineCapacity, projects, order,
                               resources, shifts, months, now), months)

MonthDeficit(res, id, m) == res.projectStatus[id].monthlyStatus[m].deficit

SumMonthly(entry, field) ==
    SumOver(DOMAIN entry.monthlyStatus,
            [m \in DOMAIN entry.monthlyStatus |-> entry.monthlyStatus[m][field]])

\* C1: in the returned result every project has, for every month of the month
\* list, a monthly status with allocated + deficit = demand, whatever branch
\* (none, staffed, partial, unstaffed) recorded it; and so has every status
\* recorded while the loop runs.
C1_Conservation ==
    /\ \A id \in DOMAIN projectStatus :
         \A m \in DOMAIN projectStatus[id].monthlyStatus :
            LET s == projectStatus[id].monthlyStatus[m]
            IN  s.allocated + s.deficit = s.demand
    /\ pc = "done" =>
         \A id \in DOMAIN projectStatus :
            DOMAIN projectStatus[id].monthlyStatus = Range(months)

\* A finished run in which all four branches were taken.
C1_Witness ==
    /\ pc = "done"
    /\ Statuses = {"none", "staffed", "partial", "unstaffed"}

\* C2: when the priority order has no duplicate id and the month labels are
\* distinct, the returned totalDeficit is the sum of all monthly deficits of all
\* projects, and each project's totalDeficit is the sum of its own.
C2_TotalDeficit ==
    (pc = "done" /\ NoDuplicates(priorityOrder) /\ NoDuplicates(months)) =>
        /\ \A id \in DOMAIN projectStatus :
              projectStatus[id].totalDeficit = SumMonthly(projectStatus[id], "deficit")
        /\ totalDeficit =
              SumOver(DOMAIN projectStatus,
                      [id \in DOMAIN projectStatus |->
                          SumMonthly(projectStatus[id], "deficit")])

\* A finished run where two projects both end with a deficit, one of them
\* from a partial and one from an unstaffed month.
C2_Witness ==
    /\ pc = "done"
    /\ NoDuplicates(priorityOrder)
    /\ \E a, b \in DOMAIN projectStatus :
          /\ a # b
          /\ projectStatus[a].totalDeficit > 0
          /\ projectStatus[b].totalDeficit > 0
    /\ {"partial", "unstaffed"} \subseteq Statuses

\* The order with the id at position i moved to the earlier position j, the
\* others keeping their relative order.
MoveEarlier(order, i, j) ==
    [k \in DOMAIN order |->
        IF k < j \/ k > i THEN order[k]
        ELSE IF k = j THEN order[i]
        ELSE order[k - 1]]

PositionOf(order, id) == CHOOSE k \in DOMAIN order : order[k] = id

\* No effective capacity and no (shifted) demand of the run is negative.
NonNegative ==
    /\ \A key \in DOMAIN effectiveCapacity :
          LET c == heap[effectiveCapacity[key].monthly_capacity]
          IN  \A m \in DOMAIN c : c[m] >= 0
    /\ \A k \in DOMAIN shiftedProjects :
          LET d == heap[shiftedProjects[k].monthly_demand]
          IN  \A m \in DOMAIN d : d[m] >= 0

Movable ==
    /\ pc = "done"
    /\ NonNegative

\* The result of the invocation that differs from this one by MoveEarlier(i, j).
Moved(i, j) ==
    Rerun(MoveEarlier(priorityOrder, i, j), virtualResources, timelineShifts, clock)

\* C3: with non-negative capacities and demands, moving a project A to an
\* earlier position of the priority order (all else equal) does not increase
\* A's deficit in any month, nor A's total deficit.
C3_MoveEarlierHelps ==
    Movable =>
        \A i \in DOMAIN priorityOrder : \A j \in 1..(i - 1) :
            LET A == priorityOrder[i]
                w == Moved(i, j)
            IN  A \in DOMAIN projectStatus =>
                  /\ \A m \in Range(months) :
                        MonthDeficit(w, A, m) <= projectStatus[A].monthlyStatus[m].deficit
                  /\ w.projectStatus[A].totalDeficit <= projectStatus[A].totalDeficit

\* Three projects, the last of which loses its whole deficit by moving first.
C3_Witness ==
    /\ Movable
    /\ Len(priorityOrder) = 3
    /\ projectStatus[priorityOrder[3]].totalDeficit > 0
    /\ Moved(3, 1).projectStatus[priorityOrder[3]].totalDeficit = 0

\* C4: with non-negative capacities and demands, moving a project A to an
\* earlier position does not decrease the total deficit of any project B of
\* A's bucket that is ranked below A after the move.
C4_MoveEarlierCosts ==
    Movable =>
        \A i \in DOMAIN priorityOrder : \A j \in 1..(i - 1) :
            LET A == priorityOrder[i]
                after == MoveEarlier(priorityOrder, i, j)
                w == Moved(i, j)
            IN  A \in DOMAIN projectStatus =>
                  \A B \in DOMAIN projectStatus :
                     ( /\ B # A
                       /\ projectStatus[B].bucketKey = projectStatus[A].bucketKey
                       /\ PositionOf(after, B) > j )
                     => w.projectStatus[B].totalDeficit >= projectStatus[B].totalDeficit

\* Three projects of one bucket: the last one moves first and the one that was
\* first, fully staffed before, now has a deficit.
C4_Witness ==
    /\ Movable
    /\ Len(priorityOrder) = 3
    /\ LET A == priorityOrder[3]
           B == priorityOrder[1]
       IN  /\ projectStatus[B].bucketKey = projectStatus[A].bucketKey
           /\ projectStatus[B].totalDeficit = 0
           /\ Moved(3, 1).projectStatus[B].totalDeficit > 0

\* The result of the invocation that has one more virtual resource, added last.
WithResource(r) ==
    Rerun(priorityOrder, Append(virtualResources, r), timelineShifts, clock)

KeyOf(r) == getBucketKey(r.team, r.role, r.location)

\* Adding r does not increase the deficit, in any month, of any project of r's bucket.
NoDeficitIncrease(r) ==
    LET w == WithResource(r)
    IN  \A id \in DOMAIN projectStatus :
            projectStatus[id].bucketKey = KeyOf(r) =>
                \A m \in Range(months) :
                    MonthDeficit(w, id, m) <= projectStatus[id].monthlyStatus[m].deficit

\* C5: adding one virtual resource for bucket key K, whatever its hours, does
\* not increase the deficit, in any month, of any project with bucket key K.
C5_AnyResource ==
    pc = "done" => \A r \in Resources : NoDeficitIncrease(r)

\* C5 for resources that add hours: adding one virtual resource with
\* hoursPerMonth >= 0 for bucket key K does not increase the deficit, in any
\* month, of any project with bucket key K.
C5_NonNegativeResource ==
    pc = "done" =>
        \A r \in Resources : r.hoursPerMonth >= 0 => NoDeficitIncrease(r)

\* A finished run and a resource of one hour that takes a project of its
\* bucket from a deficit to none.
C5_Witness ==
    /\ pc = "done"
    /\ \E x \in Idents : \E id \in DOMAIN projectStatus :
          /\ projectStatus[id].bucketKey = KeyOf(Resource(x, 1))
          /\ projectStatus[id].totalDeficit > 0
          /\ WithResource(Resource(x, 1)).projectStatus[id].totalDeficit = 0

\* The month series of a bucket of the utilization table, with its capacity.
BucketSeries(res, key) ==
    [capacity  |-> res.bucketUtilization[key].monthly_capacity,
     consumed  |-> res.bucketUtilization[key].monthly_consumed,
     remaining |-> res.bucketUtilization[key].monthly_remaining]

\* C6: adding one virtual resource for bucket key K changes neither the monthly
\* status, allocation and deficit of any project whose bucket key is not K, nor
\* the capacity, consumed and remaining series of any bucket other than K.
C6_OtherBucketsUntouched ==
    pc = "done" =>
        LET res == Result
        IN  \A r \in Resources :
                LET w == WithResource(r)
                    K == KeyOf(r)
                IN  /\ \A id \in DOMAIN projectStatus :
                          projectStatus[id].bucketKey # K =>
                              /\ w.projectStatus[id].monthlyStatus
                                    = projectStatus[id].monthlyStatus
                              /\ w.projectStatus[id].totalDeficit
                                    = projectStatus[id].totalDeficit
                    /\ \A key \in DOMAIN bucketUtilization :
                          key # K =>
                              /\ key \in DOMAIN w.bucketUtilization
                              /\ BucketSeries(w, key) = BucketSeries(res, key)
                              /\ w.effectiveCapacity[key] = res.effectiveCapacity[key]

\* A finished run with a project in deficit in each of two buckets, and a
\* resource that relieves the one and leaves the other.
C6_Witness ==
    /\ pc = "done"
    /\ Cardinality(DOMAIN bucketUtilization) = 2
    /\ \E r \in Resources : \E a, b \in DOMAIN projectStatus :
          /\ projectStatus[a].bucketKey = KeyOf(r)
          /\ projectStatus[b].bucketKey # KeyOf(r)
          /\ projectStatus[b].totalDeficit > 0
          /\ WithResource(r).projectStatus[a].totalDeficit
                < projectStatus[a].totalDeficit

\* The allocation loop run again on this run's effective capacity and shifted
\* demand with every month other than M set to zero hours.
Isolated(M) ==
    LET zeroed == [r \in DOMAIN heap |->
                      [m \in DOMAIN heap[r] |-> IF m = M THEN heap[r][m] ELSE 0]]
        s3 == InitTracking([Cur EXCEPT !.heap = zeroed], priorityOrder, months)
    IN  AllocLoop(s3, months, priorityOrder, 1, 1)

\* C7: no banking across months.  When the loop reaches the first project of a
\* month, every bucket has exactly its effective capacity of that month
\* available; and what the finished run records for a month (every project's
\* status, allocation and deficit, every bucket's consumed and remaining hours)
\* is what it records when all other months have zero capacity and zero
\* demand, so it depends on no other month.
C7_NoBanking ==
    /\ (pc = "alloc" /\ mi <= Len(months) /\ pi = 1) =>
          \A key \in DOMAIN effectiveCapacity :
              AvailableCapacity(remainingCapacity, key, months[mi])
                  = OrZero(heap[effectiveCapacity[key].monthly_capacity], months[mi])
    /\ pc = "done" =>
          \A M \in Range(months) :
              LET w == Isolated(M)
              IN  /\ \A id \in DOMAIN projectStatus :
                        w.projectStatus[id].monthlyStatus[M]
                            = projectStatus[id].monthlyStatus[M]
                  /\ \A key \in DOMAIN bucketUtilization :
                        /\ w.bucketUtilization[key].monthly_consumed[M]
                              = bucketUtilization[key].monthly_consumed[M]
                        /\ w.bucketUtilization[key].monthly_remaining[M]
                              = bucketUtilization[key].monthly_remaining[M]

\* A finished run with unused capacity in the first month of a bucket and a
\* deficit of one of its projects in the second.
C7_Witness ==
    /\ pc = "done"
    /\ Len(months) = 2
    /\ \E id \in DOMAIN projectStatus :
          LET key == projectStatus[id].bucketKey
          IN  /\ key \in DOMAIN bucketUtilization
              /\ bucketUtilization[key].monthly_remaining[months[1]] > 0
              /\ projectStatus[id].monthlyStatus[months[2]].deficit > 0

\* C8: a second invocation on the same six inputs, at whatever time, returns a
\* result equal to this one in every field.
C8_SameInputsSameResult ==
    pc = "done" =>
        \A now \in 0..MaxClock :
            Rerun(priorityOrder, virtualResources, timelineShifts, now) = Result

\* C9: no step of an invocation changes an input: the lists, the shift map and
\* every month object of the baseline buckets and of the projects keep their
\* values.
C9_InputsUntouched ==
    [][/\ inputs' = inputs
       /\ \A r \in InputRefs : heap'[r] = heap[r]]_vars

\* A finished run in which a virtual resource added hours to the baseline
\* bucket and a project was shifted.
C9_Witness ==
    /\ pc = "done"
    /\ \E key \in DOMAIN effectiveCapacity :
          /\ "isVirtual" \notin DOMAIN effectiveCapacity[key]
          /\ heap[effectiveCapacity[key].monthly_capacity]
                # heap[baselineCapacity[1].monthly_capacity]
    /\ \E k \in DOMAIN projects :
          /\ "timelineShift" \in DOMAIN shiftedProjects[k]
          /\ heap[shiftedProjects[k].monthly_demand] # heap[projects[k].monthly_demand]

\* C10: the hours h # 0 that a project demands in the last month are, under a
\* shift of +1, in no part of the result: the project's monthly demands, and its
\* allocations and deficits together, add up to its demand without h, its total
\* deficit is at most that, and no other field of its entry (total_demand)
\* still counts them.
C10_LostEntirely ==
    pc = "done" =>
        \A k \in DOMAIN projects :
            LET p    == projects[k]
                h    == OrZero(heap[p.monthly_demand], months[Len(months)])
                kept == p.total_demand - h
            IN  ( /\ p.id \in DOMAIN timelineShifts
                  /\ timelineShifts[p.id] = 1
                  /\ h # 0
                  /\ p.id \in DOMAIN projectStatus )
                => LET e == projectStatus[p.id]
                   IN  /\ SumMonthly(e, "demand") = kept
                       /\ SumMonthly(e, "allocated") + SumMonthly(e, "deficit") = kept
                       /\ e.totalDeficit <= kept
                       /\ e.total_demand = kept

\* The key of the baseline bucket.
BaselineKey ==
    getBucketKey(baselineCapacity[1].team, baselineCapacity[1].role,
                 baselineCapacity[1].location)

\* The inputs of the worked example: capacity 100 in Jan, two projects of the
\* bucket demanding 60 each, order [P1, P2], no virtual resources, no shifts.
WorkedExample ==
    /\ months = <<"Jan">>
    /\ heap[baselineCapacity[1].monthly_capacity] = [Jan |-> 100]
    /\ Len(projects) = 2
    /\ \A k \in 1..2 :
          /\ heap[projects[k].monthly_demand] = [Jan |-> 60]
          /\ getBucketKey(projects[k].team, projects[k].role, projects[k].location)
                = BaselineKey
    /\ priorityOrder = <<projects[1].id, projects[2].id>>
    /\ virtualResources = <<>>
    /\ timelineShifts = <<>>

\* C11: on the worked example the run returns P1 staffed with allocated 60 and
\* deficit 0, P2 partial with allocated 40 and deficit 20, utilization 100 for
\* the bucket in Jan and totalDeficit 20.
C11_WorkedExample ==
    (pc = "done" /\ WorkedExample) =>
        /\ projectStatus[projects[1].id].monthlyStatus["Jan"]
              = [status |-> "staffed", demand |-> 60, allocated |-> 60, deficit |-> 0]
        /\ projectStatus[projects[2].id].monthlyStatus["Jan"]
              = [status |-> "partial", demand |-> 60, allocated |-> 40, deficit |-> 20]
        /\ bucketUtilization[BaselineKey].monthly_utilization["Jan"] = 100
        /\ totalDeficit = 20

\* The finished run of the worked example.
C11_Witness == pc = "done" /\ WorkedExample

\* C16: the utilization of every bucket and month is consumed / capacity * 100
\* rounded to the nearest integer, a half upwards, where the effective capacity
\* is greater than 0, and 0 where it is 0 or absent.
C16_RoundedPercent ==
    pc = "done" =>
        \A key \in DOMAIN bucketUtilization : \A m \in Range(months) :
            LET capacity == OrZero(heap[effectiveCapacity[key].monthly_capacity], m)
                consumed == bucketUtilization[key].monthly_consumed[m]
            IN  bucketUtilization[key].monthly_utilization[m]
                    = IF capacity > 0 THEN RoundPercentExact(consumed, capacity) ELSE 0

\* The virtualResources.forEach loop has run.
Aggregated == pc \in {"init", "alloc", "done"}

\* The indices of the virtual resources, and of the baseline buckets, of a key.
ResourcesOf(key) == {i \in DOMAIN virtualResources : KeyOf(virtualResources[i]) = key}
BaselineOf(key) ==
    {i \in DOMAIN baselineCapacity :
        getBucketKey(baselineCapacity[i].team, baselineCapacity[i].role,
                     baselineCapacity[i].location) = key}

\* The baseline capacity of a key in a month, 0 if there is none.
BaselineHours(key, m) ==
    IF BaselineOf(key) = {} THEN 0
    ELSE LET i == CHOOSE j \in BaselineOf(key) : TRUE
         IN  OrZero(heap[baselineCapacity[i].monthly_capacity], m)

\* The effective capacity is the baseline plus hours(r) for every resource r of
\* the key, the keys are those of the baseline buckets and of the resources, and
\* exactly the buckets of keys with no baseline bucket are flagged virtual.
EffectiveIs(hours(_)) ==
    /\ DOMAIN effectiveCapacity
          = {KeyOf(baselineCapacity[i]) : i \in DOMAIN baselineCapacity}
            \cup {KeyOf(virtualResources[i]) : i \in DOMAIN virtualResources}
    /\ \A key \in DOMAIN effectiveCapacity :
          /\ \A m \in Range(months) :
                OrZero(heap[effectiveCapacity[key].monthly_capacity], m)
                    = BaselineHours(key, m)
                      + SumOver(ResourcesOf(key),
                                [i \in ResourcesOf(key) |-> hours(virtualResources[i])])
          /\ ("isVirtual" \in DOMAIN effectiveCapacity[key]) = (BaselineOf(key) = {})
          /\ BaselineOf(key) = {} => effectiveCapacity[key].isVirtual = TRUE

\* The hours the engine adds for a resource: 0 counts as 160.
CountedHours(r) == IF r.hoursPerMonth = 0 THEN 160 ELSE r.hoursPerMonth
StatedHours(r) == r.hoursPerMonth

\* C12: for every non-negative integer hoursPerMonth the effective capacity of
\* every key and month is the baseline capacity (0 if none) plus the sum of
\* hoursPerMonth over the resources of the key; a key with no baseline bucket
\* has a bucket flagged virtual, a key with one is not flagged.
C12_BaselinePlusSum == Aggregated => EffectiveIs(StatedHours)

\* C12, amended: the same for every positive integer hoursPerMonth, a resource
\* with hoursPerMonth 0 counting as 160 hours.
C12_BaselinePlusCounted == Aggregated => EffectiveIs(CountedHours)

\* Two resources on the baseline bucket's key, or two on a key with no baseline
\* bucket, aggregated.
C12_Witness ==
    /\ Aggregated
    /\ Len(virtualResources) = 2
    /\ KeyOf(virtualResources[1]) = KeyOf(virtualResources[2])
    /\ virtualResources[1].hoursPerMonth > 0
    /\ virtualResources[2].hoursPerMonth > 0
    /\ BaselineOf(KeyOf(virtualResources[1])) = {}

\* applyTimelineShifts has run.
Shifted == pc \in {"init", "alloc", "done"}

\* The shift of a project, 0 if the map has none.
ShiftOf(id) == IF id \in DOMAIN timelineShifts THEN timelineShifts[id] ELSE 0

\* C13: for every project P with integer shift s, the demand returned for P at
\* month index j is P's demand at index j - s where that is an index of the
\* month list and 0 elsewhere, whatever the size of s; with shift 0 or no shift
\* the project is returned with its demand unchanged.
C13_ShiftByIndex ==
    Shifted =>
        \A k \in DOMAIN projects :
            LET s   == ShiftOf(projects[k].id)
                old == heap[projects[k].monthly_demand]
                new == heap[shiftedProjects[k].monthly_demand]
            IN  /\ s = 0 => shiftedProjects[k] = projects[k]
                /\ \A j \in DOMAIN months :
                      OrZero(new, months[j])
                          = IF j - s \in DOMAIN months THEN OrZero(old, months[j - s])
                            ELSE 0

\* A shift by two of three months: the hours of the first month arrive in the
\* third and those of the second are dropped; and a shift beyond the list.
C13_Witness ==
    /\ Shifted
    /\ Len(months) = 3
    /\ ShiftOf(projects[1].id) = 2
    /\ OrZero(heap[projects[1].monthly_demand], months[1]) > 0
    /\ OrZero(heap[projects[1].monthly_demand], months[2]) > 0
    /\ heap[shiftedProjects[1].monthly_demand][months[3]]
          = heap[projects[1].monthly_demand][months[1]]

\* C14: one (month, project) step.  With demand the project's shifted demand of
\* the month (0 if absent) and available the bucket's remaining capacity of the
\* month (0 if there is no bucket): demand = 0 gives none and leaves the
\* remaining capacity; available >= demand gives staffed, allocated = demand,
\* remaining less demand; 0 < available < demand gives partial, allocated =
\* available, remaining 0, deficit = demand - available; available = 0 and
\* demand > 0 gives unstaffed, allocated 0, deficit = demand, remaining as before.
C14_StepCases ==
    [][(pc = "alloc" /\ ~AllocDone /\ priorityOrder[pi] \in DOMAIN projectMap) =>
         LET id        == priorityOrder[pi]
             month     == months[mi]
             project   == projectMap[id]
             key       == getBucketKey(project.team, project.role, project.location)
             demand    == OrZero(heap[project.monthly_demand], month)
             exists    == key \in DOMAIN remainingCapacity
             available == IF exists THEN OrZero(remainingCapacity[key], month) ELSE 0
             after     == projectStatus'[id].monthlyStatus[month]
             others    == \A k \in DOMAIN remainingCapacity :
                              \A m \in DOMAIN remainingCapacity[k] :
                                  (k # key \/ m # month) =>
                                      remainingCapacity'[k][m] = remainingCapacity[k][m]
         IN  /\ DOMAIN remainingCapacity' = DOMAIN remainingCapacity
             /\ others
             /\ demand = 0 =>
                   /\ after.status = "none"
                   /\ remainingCapacity' = remainingCapacity
             /\ (demand # 0 /\ available >= demand) =>
                   /\ after = [status |-> "staffed", demand |-> demand,
                                allocated |-> demand, deficit |-> 0]
                   /\ exists => remainingCapacity'[key][month] = available - demand
             /\ (0 < available /\ available < demand) =>
                   /\ after = [status |-> "partial", demand |-> demand,
                                allocated |-> available, deficit |-> demand - available]
                   /\ remainingCapacity'[key][month] = 0
             /\ (available = 0 /\ demand > 0) =>
                   /\ after = [status |-> "unstaffed", demand |-> demand,
                                allocated |-> 0, deficit |-> demand]
                   /\ remainingCapacity' = remainingCapacity
      ]_vars

\* A finished run in which all four cases were taken.
C14_Witness ==
    /\ pc = "done"
    /\ Statuses = {"none", "staffed", "partial", "unstaffed"}

\* C15: a project's overallStatus is staffed if every month with nonzero demand
\* is staffed; otherwise unstaffed if no month is staffed, also when every
\* month received some hours; otherwise partial.  The months of status none are
\* those of zero demand, so they have no part in it.
C15_OverallStatus ==
    pc = "done" =>
        \A id \in DOMAIN projectStatus :
            LET ms       == projectStatus[id].monthlyStatus
                demanded == {m \in DOMAIN ms : ms[m].demand # 0}
                staffed  == {m \in DOMAIN ms : ms[m].status = "staffed"}
            IN  /\ \A m \in DOMAIN ms : (ms[m].status = "none") = (m \notin demanded)
                /\ projectStatus[id].overallStatus
                      = IF demanded \subseteq staffed THEN "staffed"
                        ELSE IF staffed = {} THEN "unstaffed"
                        ELSE "partial"

\* A project that received hours in both months and all it demanded in neither,
\* reported unstaffed.
C15_Witness ==
    /\ pc = "done"
    /\ Len(months) = 2
    /\ \E id \in DOMAIN projectStatus :
          /\ \A m \in Range(months) : projectStatus[id].monthlyStatus[m].status = "partial"
          /\ projectStatus[id].overallStatus = "unstaffed"

\* The ids of the order that match a project record, in their order.
IsKnown(id) == \E k \in DOMAIN projects : projects[k].id = id
KnownOrder == SelectSeq(priorityOrder, IsKnown)

\* What a result says of the projects and the buckets, priority ranks aside.
Allocation(res) ==
    [projects    |-> [id \in DOMAIN res.projectStatus |->
                         [monthlyStatus |-> res.projectStatus[id].monthlyStatus,
                          totalDeficit  |-> res.projectStatus[id].totalDeficit,
                          overallStatus |-> res.projectStatus[id].overallStatus]],
     buckets      |-> res.bucketUtilization,
     totalDeficit |-> res.totalDeficit]

\* C17: an id of the priority order that matches no project has no entry in
\* projectStatus, and the statuses, allocations and deficits of the projects,
\* the hours consumed of every bucket and month and the total deficit are those
\* of the run on the order without that id.
C17_UnknownIdSkipped ==
    pc = "done" =>
        /\ \A id \in Range(priorityOrder) : ~IsKnown(id) => id \notin DOMAIN projectStatus
        /\ Allocation(Rerun(KnownOrder, virtualResources, timelineShifts, clock))
              = Allocation(Result)

\* A finished run with a deficit whose order has an unknown id before a known one.
C17_Witness ==
    /\ pc = "done"
    /\ totalDeficit > 0
    /\ \E i, j \in DOMAIN priorityOrder :
          i < j /\ ~IsKnown(priorityOrder[i]) /\ IsKnown(priorityOrder[j])

\* The allocator with the loops swapped: projects in priority order outside,
\* months inside, over the same remaining capacity per bucket and month.
RECURSIVE AllocLoopProjectMajor(_, _, _, _, _)
AllocLoopProjectMajor(st, ms, order, j, i) ==
    IF j > Len(order) THEN st
    ELSE IF i > Len(ms) THEN AllocLoopProjectMajor(st, ms, order, j + 1, 1)
    ELSE AllocLoopProjectMajor(AllocStep(st, ms[i], order[j]), ms, order, j, i + 1)

ProjectMajorScenario(h, capacity, projs, order, resources, shifts, ms, now) ==
    LET s1 == VirtualLoop(BaselineLoop(EmptyRun(h), capacity), resources, ms, now)
        s2 == ShiftLoop(s1, projs, shifts, ms)
        s3 == InitTracking(s2, order, ms)
        s4 == AllocLoopProjectMajor(s3, ms, order, 1, 1)
    IN  ResultOf(Summarize(s4, ms), ms)

SameWithinBuckets ==
    {o \in {[i \in DOMAIN priorityOrder |-> priorityOrder[q[i]]] :
                q \in Permutations(DOMAIN priorityOrder)} :
        \A a, b \in DOMAIN projectStatus :
            (a # b /\ projectStatus[a].bucketKey = projectStatus[b].bucketKey) =>
                (PositionOf(o, a) < PositionOf(o, b))
                    = (PositionOf(priorityOrder, a) < PositionOf(priorityOrder, b))}

\* C19: two duplicate-free priority orders that agree on the relative order of
\* every two projects of the same bucket key give every project the same
\* monthly status, allocation and deficit, and give the same bucket utilization
\* and total deficit.
C19_OrderAcrossBuckets ==
    (pc = "done" /\ NoDuplicates(priorityOrder)) =>
        LET a == Allocation(Result)
        IN  \A o \in SameWithinBuckets :
                Allocation(Rerun(o, virtualResources, timelineShifts, clock)) = a

\* Three projects on two buckets, with a deficit, and another order that
\* agrees within the buckets.
C19_Witness ==
    /\ pc = "done"
    /\ NoDuplicates(priorityOrder)
    /\ Len(priorityOrder) = 3
    /\ totalDeficit > 0
    /\ Cardinality({projectStatus[id].bucketKey : id \in DOMAIN projectStatus}) = 2
    /\ \E o \in SameWithinBuckets : o # priorityOrder

\* The (team, role, location) of a record.
Identity(rec) == <<rec.team, rec.role, rec.location>>

\* C20: getBucketKey returns a key for every (team, role, location), and two
\* distinct triples never receive the same key, also when a field holds the
\* separator or differs from another by letter case only: no project is keyed
\* to a bucket of another (team, role, location), and no virtual resource adds
\* its hours to one.
C20_KeysInjective ==
    pc = "done" =>
        /\ \A a, b \in {Identity(baselineCapacity[i]) : i \in DOMAIN baselineCapacity}
                      \cup {Identity(projects[i]) : i \in DOMAIN projects}
                      \cup {Identity(virtualResources[i]) : i \in DOMAIN virtualResources} :
              /\ getBucketKey(a[1], a[2], a[3]) \in Seq({"d", "s", "u", "l", "|"})
              /\ getBucketKey(a[1], a[2], a[3]) = getBucketKey(b[1], b[2], b[3]) => a = b
        /\ \A id \in DOMAIN projectStatus : \A key \in DOMAIN effectiveCapacity :
              projectStatus[id].bucketKey = key =>
                  Identity(projectStatus[id]) = Identity(effectiveCapacity[key])

\* ------------------------------------------------- baseline buckets sharing a key
IdentLowerX == [team |-> <<"d">>, role |-> <<"u">>, location |-> <<"l">>]

\* Several baseline buckets: the capacity maps come first on the heap, then
\* the demand maps.
InitBuckets(buckets, caps, n, ms, demand, ident, lever) ==
    /\ heap = caps \o [i \in 1..n |-> demand[i]]
    /\ baselineCapacity = [b \in DOMAIN buckets |-> BucketRecord(b - 1, buckets[b], b)]
    /\ projects = [i \in 1..n |->
                       ProjectRecord(i, ident[i], Len(buckets) + i, demand[i])]
    /\ priorityOrder = lever.order
    /\ virtualResources = lever.resources
    /\ timelineShifts = lever.shifts
    /\ months = ms
    /\ clock = 0
    /\ pc = "start"
    /\ vi = 1 /\ mi = 1 /\ pi = 1
    /\ effectiveCapacity = <<>>
    /\ shiftedProjects = <<>>
    /\ projectMap = <<>>
    /\ remainingCapacity = <<>>
    /\ projectStatus = <<>>
    /\ bucketUtilization = <<>>
    /\ totalDeficit = 0

\* Two baseline buckets, the second of IdentX, the first of the same team, role
\* and location, of these in lower case, or of another team.
InitCollide ==
    \E first \in {IdentX, IdentLowerX, IdentY},
       caps \in [1..2 -> HourMaps(<<"Jan">>)], demand \in [1..2 -> HourMaps(<<"Jan">>)],
       ident \in {f \in [1..2 -> Idents] : f[1] = IdentX},
       resources \in {<<>>} \cup {<<Resource(x, 1)>> : x \in Idents} :
        InitBuckets(<<first, IdentX>>, caps, 2, <<"Jan">>, demand, ident,
                    Lever(DefaultOrder(2), resources, <<>>))

\* The same run on the inputs of InitCollide.
SpecCollide == InitCollide /\ [][Next]_vars

\* The keys that two or more baseline buckets share.
CollidingKeys ==
    {key \in {KeyOf(baselineCapacity[i]) : i \in DOMAIN baselineCapacity} :
        Cardinality(BaselineOf(key)) > 1}

\* The last baseline bucket of a key, in list order.
LastOf(key) == CHOOSE i \in BaselineOf(key) : \A j \in BaselineOf(key) : j <= i

VirtualHoursOf(key) ==
    SumOver(ResourcesOf(key),
            [i \in ResourcesOf(key) |-> CountedHours(virtualResources[i])])

\* C21: when two distinct baseline buckets normalize to the same key, they are
\* one merged bucket: effectiveCapacity and bucketUtilization hold one entry
\* for the key, every project of the key draws from it, and the capacity of
\* both baseline buckets (with the virtual hours of the key) is available.
C21_MergedCapacity ==
    pc = "done" =>
        \A key \in CollidingKeys :
            /\ key \in DOMAIN effectiveCapacity
            /\ key \in DOMAIN bucketUtilization
            /\ \A id \in DOMAIN projectStatus :
                  KeyOf(projectStatus[id]) = key => projectStatus[id].bucketKey = key
            /\ \A m \in Range(months) :
                  OrZero(heap[effectiveCapacity[key].monthly_capacity], m)
                      = SumOver(BaselineOf(key),
                                [i \in BaselineOf(key) |->
                                    OrZero(heap[baselineCapacity[i].monthly_capacity], m)])
                        + VirtualHoursOf(key)

\* C30: when several baseline buckets share a key, the effective bucket of the
\* key is the last of them in list order: in every month its capacity is that
\* last bucket's capacity plus the virtual hours of the key, and the
\* capacities of the earlier buckets of the key are not in it.
C30_LastBucketWins ==
    Aggregated =>
        \A key \in CollidingKeys :
            /\ key \in DOMAIN effectiveCapacity
            /\ effectiveCapacity[key].id = baselineCapacity[LastOf(key)].id
            /\ Identity(effectiveCapacity[key]) = Identity(baselineCapacity[LastOf(key)])
            /\ \A m \in Range(months) :
                  OrZero(heap[effectiveCapacity[key].monthly_capacity], m)
                      = OrZero(heap[baselineCapacity[LastOf(key)].monthly_capacity], m)
                        + VirtualHoursOf(key)

\* Two buckets of one key, the first with capacity the last has not, and a
\* virtual resource of the key, aggregated.
C30_Witness ==
    /\ Aggregated
    /\ \E key \in CollidingKeys :
          /\ ResourcesOf(key) # {}
          /\ \E i \in BaselineOf(key), m \in Range(months) :
                /\ i # LastOf(key)
                /\ Identity(baselineCapacity[i]) # Identity(baselineCapacity[LastOf(key)])
                /\ heap[baselineCapacity[i].monthly_capacity][m] > 0
                /\ heap[baselineCapacity[i].monthly_capacity][m]
                      # heap[baselineCapacity[LastOf(key)].monthly_capacity][m]

\* -------------------------------------------------------- totals under reordering
Min(a, b) == IF a <= b THEN a ELSE b

\* The permutations of the priority order.
Reorderings ==
    {[i \in DOMAIN priorityOrder |-> priorityOrder[q[i]]] :
        q \in Permutations(DOMAIN priorityOrder)}

\* The projects of the result that are mapped to a bucket key.
ProjectsOf(key) == {id \in DOMAIN projectStatus : projectStatus[id].bucketKey = key}

\* The demand of a month on a bucket key, over the projects mapped to it.
DemandOn(key, m) ==
    SumOver(ProjectsOf(key),
            [id \in ProjectsOf(key) |-> projectStatus[id].monthlyStatus[m].demand])

Demanding(key, m) ==
    {id \in ProjectsOf(key) : projectStatus[id].monthlyStatus[m].status # "none"}

StatusIn(id, m) == projectStatus[id].monthlyStatus[m].status

\* C27: within one bucket and one month, the projects of the bucket in priority
\* order, those of status none left out, are staffed ones, then at most one
\* partial one, then unstaffed ones: none is staffed or partial after a
\* partial or unstaffed one, and at most one is partial.
C27_StatusPattern ==
    pc = "done" =>
        \A key \in DOMAIN bucketUtilization : \A m \in Range(months) :
            /\ \A a, b \in Demanding(key, m) :
                  (/\ projectStatus[a].priority < projectStatus[b].priority
                   /\ StatusIn(a, m) \in {"partial", "unstaffed"})
                      => StatusIn(b, m) = "unstaffed"
            /\ Cardinality({id \in Demanding(key, m) : StatusIn(id, m) = "partial"}) <= 1

\* Three projects of one bucket in one month: staffed, partial and unstaffed.
C27_Witness ==
    /\ pc = "done"
    /\ \E key \in DOMAIN bucketUtilization : \E m \in Range(months) :
          /\ Cardinality(Demanding(key, m)) = 3
          /\ {StatusIn(id, m) : id \in Demanding(key, m)}
                = {"staffed", "partial", "unstaffed"}

\* ------------------------------------------------------------ utilization bounds
getUtilizationColor(percentage) ==
    IF percentage > 100 THEN "capacity-red"
    ELSE IF percentage >= 85 THEN "capacity-amber"
    ELSE "capacity-green"

getUtilizationStatus(percentage) ==
    IF percentage > 100 THEN "Overloaded"
    ELSE IF percentage >= 85 THEN "At Capacity"
    ELSE "Available"

\* C28: with non-negative capacities and demands, at every point of the
\* allocation loop and in the result, every bucket and month has consumed plus
\* remaining equal to the effective capacity and consumed between 0 and the
\* capacity; the utilization is between 0 and 100, and its colour and status
\* are never those of an overloaded bucket.
C28_ConsumedWithinCapacity ==
    (pc \in {"alloc", "done"} /\ NonNegative) =>
        \A key \in DOMAIN bucketUtilization : \A m \in Range(months) :
            LET b        == bucketUtilization[key]
                capacity == OrZero(heap[effectiveCapacity[key].monthly_capacity], m)
            IN  /\ b.monthly_consumed[m] + b.monthly_remaining[m] = capacity
                /\ 0 <= b.monthly_consumed[m]
                /\ b.monthly_consumed[m] <= capacity
                /\ b.monthly_utilization[m] \in 0..100
                /\ getUtilizationColor(b.monthly_utilization[m]) # "capacity-red"
                /\ getUtilizationStatus(b.monthly_utilization[m]) # "Overloaded"

\* A result with a bucket used in part in one month and used up in a month in
\* which a project is left with a deficit.
C28_Witness ==
    /\ pc = "done"
    /\ NonNegative
    /\ \E key \in DOMAIN bucketUtilization : \E m, n \in Range(months) :
          LET b == bucketUtilization[key]
          IN  /\ b.monthly_consumed[m] > 0
              /\ b.monthly_remaining[m] > 0
              /\ b.monthly_utilization[m] \in 1..99
              /\ b.monthly_consumed[n] > 0
              /\ b.monthly_utilization[n] = 100
              /\ \E id \in ProjectsOf(key) :
                    projectStatus[id].monthlyStatus[n].deficit > 0

\* ------------------------------------------------------------- resolved scenarios
\* DeltaCounter: the scenario is shown as resolved.
isResolved(deficit) == deficit = 0

NonNegativeDemand ==
    \A k \in DOMAIN shiftedProjects :
        LET d == heap[shiftedProjects[k].monthly_demand]
        IN  \A m \in DOMAIN d : d[m] >= 0

\* C29: with non-negative demands and a priority order that names no project
\* twice, a project is staffed overall exactly if its totalDeficit is 0, so a
\* project with no demand is staffed; and the portfolio totalDeficit is 0, the
\* scenario shown as resolved, exactly if every project is staffed overall.
C29_StaffedIffNoDeficit ==
    (pc = "done" /\ NonNegativeDemand /\ NoDuplicates(priorityOrder)) =>
        /\ \A id \in DOMAIN projectStatus :
              /\ (projectStatus[id].overallStatus = "staffed")
                    = (projectStatus[id].totalDeficit = 0)
              /\ (\A m \in Range(months) : projectStatus[id].monthlyStatus[m].demand = 0)
                    => projectStatus[id].overallStatus = "staffed"
        /\ isResolved(totalDeficit)
              = (\A id \in DOMAIN projectStatus :
                    projectStatus[id].overallStatus = "staffed")

\* A result with a staffed project that has demand, one with no demand, and
\* one that is not staffed: not resolved.
C29_Witness ==
    /\ pc = "done"
    /\ NonNegativeDemand
    /\ NoDuplicates(priorityOrder)
    /\ ~isResolved(totalDeficit)
    /\ \E a, b, c \in DOMAIN projectStatus :
          /\ projectStatus[a].overallStatus = "staffed"
          /\ \E m \in Range(months) : projectStatus[a].monthlyStatus[m].demand > 0
          /\ \A m \in Range(months) : projectStatus[b].monthlyStatus[m].demand = 0
          /\ projectStatus[c].overallStatus # "staffed"

\* ---------------------------------------------------------------- the Dashboard
\* The Dashboard holds the three levers as state and shows, after every change
\* of a lever, the result of calculateScenario on the baseline and the levers.
ShiftLimit == 6
MaxResources == 1
NoTarget == "none"

\* Array.prototype.indexOf, counted from 1, 0 if absent.
IndexOf(order, id) ==
    IF \E i \in DOMAIN order : order[i] = id
    THEN CHOOSE i \in DOMAIN order :
            order[i] = id /\ \A j \in DOMAIN order : order[j] = id => i <= j
    ELSE 0

\* A variant that writes the element at from over the one at to.
arrayCopy(array, from, to) == [array EXCEPT ![to] = array[from]]

\* arrayMove of @dnd-kit/sortable: the element at from is taken out and put in
\* at to.
arrayMove(array, from, to) ==
    LET rest == SubSeq(array, 1, from - 1) \o SubSeq(array, from + 1, Len(array))
    IN  SubSeq(rest, 1, to - 1) \o <<array[from]>> \o SubSeq(rest, to, Len(rest))

\* What a handler does with the callback it was given: calls it with a value,
\* or does not call it.
Call(value) == [called |-> TRUE, value |-> value]
NoCall == [called |-> FALSE]

\* PrioritySlider.handleDragEnd: the order handed to onPriorityChange.
handleDragEnd(order, active, over) ==
    IF over # NoTarget /\ active # over
    THEN Call(arrayMove(order, IndexOf(order, active), IndexOf(order, over)))
    ELSE NoCall

handleAddVirtualResource(prev, resource, now) ==
    Append(prev, [id |-> now] @@ resource)

handleRemoveVirtualResource(prev, resourceId) ==
    SelectSeq(prev, LAMBDA r : r.id # resourceId)

\* A variant without the limit.
handleShiftProjectUnlimited(shifts, projectId, direction) ==
    Call((projectId :> (OrZero(shifts, projectId) + direction)) @@ shifts)

\* Heatmap.handleShiftProject with Dashboard.handleTimelineShift: the shift
\* map after a click.
handleShiftProject(shifts, projectId, direction) ==
    LET currentShift == IF OrZero(shifts, projectId) = 0 THEN 0 ELSE shifts[projectId]
        newShift     == currentShift + direction
    IN  IF newShift >= -ShiftLimit /\ newShift <= ShiftLimit
        THEN Call((projectId :> newShift) @@ shifts)
        ELSE NoCall

\* baselineProjects.map(p => p.id)
BaselineOrder == [i \in DOMAIN projects |-> projects[i].id]

\* A variant that keeps the shifts.
ResetKeepingShifts(shifts) == Lever(BaselineOrder, <<>>, shifts)

\* handleResetScenario: the levers after a reset.
handleResetScenario(shifts) == Lever(BaselineOrder, <<>>, <<>>)

\* The Dashboard shows a result: pc is "reset" when the result shown is that of
\* a reset, "done" when it is the first one or that of another change.
Rendered == pc \in {"done", "reset"}

\* The useMemo of scenarioResults: calculateScenario on the baseline and the
\* levers, at the time of the render.  The objects of the result it replaces
\* are no longer referenced.
Render(lever) ==
    /\ priorityOrder' = lever.order
    /\ virtualResources' = lever.resources
    /\ timelineShifts' = lever.shifts
    /\ Becomes(calculateScenario(InputHeap, baselineCapacity, projects, lever.order,
                                 lever.resources, lever.shifts, months, clock))
    /\ UNCHANGED <<baselineCapacity, projects, months, clock, vi, mi, pi>>

\* The Dashboard as first shown: the levers of useState and the first result.
Shown(buckets, caps, n, ms, ident, demand) ==
    LET capacity == [b \in DOMAIN buckets |-> BucketRecord(b - 1, buckets[b], b)]
        projs    == [i \in 1..n |->
                        ProjectRecord(i, ident[i], Len(buckets) + i, demand[i])]
        order    == [i \in 1..n |-> projs[i].id]
        st       == calculateScenario(caps \o [i \in 1..n |-> demand[i]], capacity,
                                      projs, order, <<>>, <<>>, ms, 0)
    IN  /\ baselineCapacity = capacity
        /\ projects = projs
        /\ months = ms
        /\ priorityOrder = order
        /\ virtualResources = <<>>
        /\ timelineShifts = <<>>
        /\ clock = 0
        /\ pc = "done"
        /\ vi = 1 /\ mi = 1 /\ pi = 1
        /\ heap = st.heap
        /\ effectiveCapacity = st.effectiveCapacity
        /\ shiftedProjects = st.shiftedProjects
        /\ projectMap = st.projectMap
        /\ remainingCapacity = st.remainingCapacity
        /\ projectStatus = st.projectStatus
        /\ bucketUtilization = st.bucketUtilization
        /\ totalDeficit = st.totalDeficit

MonthMap(ms, hours) == [m \in Range(ms) |-> hours[MonthIndex(ms, m)]]

\* A second bucket, of another team and role: the form of VirtualCapacity then
\* offers the teams and roles of IdentY, which has no baseline bucket.
IdentZ == [team |-> <<"S">>, role |-> <<"v">>, location |-> <<"l">>]

\* Two projects over two months, the second month with demand that a shift to
\* the right drops; the second project on the first bucket or on no bucket.
LoadedCapacity == <<MonthMap(MonthNames, <<1, 1>>), MonthMap(MonthNames, <<1, 0>>)>>
LoadedDemand == <<MonthMap(MonthNames, <<1, 1>>), MonthMap(MonthNames, <<0, MaxHours>>)>>

InitDashboard ==
    \E ident \in {f \in [1..2 -> Idents] : f[1] = IdentX} :
        Shown(<<IdentX, IdentZ>>, LoadedCapacity, 2, MonthNames, ident, LoadedDemand)

\* getUniqueValues: the values of a field, each once.
getUniqueValues(items, field) ==
    {items[i][field] : i \in {j \in DOMAIN items : items[j][field] # <<>>}}

Levers == Lever(priorityOrder, virtualResources, timelineShifts)

\* The ids of the sortable items: the known projects of the priority order.
SortableIds == {id \in Range(priorityOrder) : \E k \in DOMAIN projects : projects[k].id = id}

\* A handler's call of a Dashboard callback renders anew; with no call
\* nothing happens.
DragEnd ==
    \E active \in SortableIds, over \in SortableIds \cup {NoTarget} :
        LET c == handleDragEnd(priorityOrder, active, over)
        IN  IF c.called
            THEN Render([Levers EXCEPT !.order = c.value]) /\ pc' = "done"
            ELSE UNCHANGED vars

AddResource ==
    /\ Len(virtualResources) < MaxResources
    /\ \E x \in Idents :
          /\ x.team \in getUniqueValues(baselineCapacity, "team")
          /\ x.role \in getUniqueValues(baselineCapacity, "role")
          /\ x.location \in getUniqueValues(baselineCapacity, "location")
          /\ Render([Levers EXCEPT
                    !.resources = handleAddVirtualResource(@, Resource(x, 1), clock)])
    /\ pc' = "done"

RemoveResource ==
    /\ \E i \in DOMAIN virtualResources :
          Render([Levers EXCEPT
                    !.resources = handleRemoveVirtualResource(@, virtualResources[i].id)])
    /\ pc' = "done"

ShiftClick ==
    \E k \in DOMAIN projects, direction \in {-1, 1} :
        LET c == handleShiftProject(timelineShifts, projects[k].id, direction)
        IN  IF c.called
            THEN Render([Levers EXCEPT !.shifts = c.value]) /\ pc' = "done"
            ELSE UNCHANGED vars

Reset ==
    /\ Render(handleResetScenario(timelineShifts))
    /\ pc' = "reset"

\* Time passes between two events.
Wait ==
    /\ Rendered
    /\ clock < MaxClock
    /\ clock' = clock + 1
    /\ UNCHANGED <<inputs, heap, pc, vi, mi, pi, locals>>

NextDashboard ==
    \/ DragEnd
    \/ AddResource
    \/ RemoveResource
    \/ ShiftClick
    \/ Reset
    \/ Wait

SpecDashboard == InitDashboard /\ [][NextDashboard]_vars

\* Three projects in one month, reordered and reset.
InitReorder ==
    \E caps \in [1..1 -> HourMaps(<<"Jan">>)], demand \in [1..3 -> HourMaps(<<"Jan">>)],
       ident \in [1..3 -> Idents] :
        Shown(<<IdentX>>, caps, 3, <<"Jan">>, ident, demand)

NextReorder ==
    \/ DragEnd
    \/ Reset

SpecReorder == InitReorder /\ [][NextReorder]_vars

\* The result of calculateScenario on the baseline as loaded.
FromLoaded(lever, now) ==
    ResultOf(calculateScenario(LoadedCapacity \o LoadedDemand, baselineCapacity,
                               projects, lever.order, lever.resources, lever.shifts,
                               months, now), months)

\* C22: after any sequence of lever changes the result shown is that of
\* calculateScenario on the unchanged baseline and the current levers, and of
\* nothing else.
C22_LeversOnly ==
    Rendered =>
        /\ InputHeap = LoadedCapacity \o LoadedDemand
        /\ Result = FromLoaded(Levers, clock)

\* A result without the ids of its virtual buckets.
SansVirtualIds(res) ==
    LET Sans(buckets) ==
            [k \in DOMAIN buckets |->
                IF "isVirtual" \in DOMAIN buckets[k]
                THEN [f \in DOMAIN buckets[k] \ {"id"} |-> buckets[k][f]]
                ELSE buckets[k]]
    IN  [res EXCEPT !.effectiveCapacity = Sans(@), !.bucketUtilization = Sans(@)]

\* Apart from the ids of virtual buckets, the result shown is that of the
\* loaded baseline and the current levers at any time, and a project whose
\* shift is back at 0 has the demand it was loaded with.
LeversOnlyApartFromIds ==
    Rendered =>
        /\ InputHeap = LoadedCapacity \o LoadedDemand
        /\ \A now \in 0..MaxClock :
              SansVirtualIds(Result) = SansVirtualIds(FromLoaded(Levers, now))
        /\ \A k \in DOMAIN projects :
              ShiftOf(projects[k].id) = 0 =>
                  heap[shiftedProjects[k].monthly_demand] = LoadedDemand[k]

\* A project shifted to the right, its last month dropped, and back to 0.
ShiftedBack ==
    /\ Rendered
    /\ \E k \in DOMAIN projects :
          /\ projects[k].id \in DOMAIN timelineShifts
          /\ timelineShifts[projects[k].id] = 0
          /\ LoadedDemand[k][MonthNames[Len(MonthNames)]] > 0
    /\ virtualResources # <<>>
    /\ clock > 0

\* C23: after any sequence of drags and resets the priority order is a
\* permutation of the baseline project ids: every one of them exactly once
\* and no other id.
C23_OrderIsPermutation ==
    /\ Len(priorityOrder) = Len(projects)
    /\ \A k \in DOMAIN projects :
          Cardinality({i \in DOMAIN priorityOrder : priorityOrder[i] = projects[k].id}) = 1
    /\ \A i \in DOMAIN priorityOrder :
          \E k \in DOMAIN projects : priorityOrder[i] = projects[k].id

\* The first project dragged to the end, the others moved up.
C23_Witness ==
    /\ Len(projects) = 3
    /\ priorityOrder = <<projects[2].id, projects[3].id, projects[1].id>>

\* C24: after any sequence of shift clicks every shift is an integer from -6 to
\* 6, and a click changes the shift of one project by one or leaves the map
\* as it is.
C24_ShiftWithinLimit ==
    [][/\ \A id \in DOMAIN timelineShifts' : timelineShifts'[id] \in -6..6
       /\ timelineShifts' # timelineShifts =>
             \/ timelineShifts' = <<>>
             \/ \E k \in DOMAIN projects, direction \in {-1, 1} :
                   timelineShifts'
                       = (projects[k].id :> (ShiftOf(projects[k].id) + direction))
                         @@ timelineShifts]_vars

\* One project at the left limit, another at the right limit.
C24_Witness ==
    \E a, b \in DOMAIN timelineShifts :
        timelineShifts[a] = -6 /\ timelineShifts[b] = 6

\* C25: after any sequence of lever changes a reset leaves the baseline order,
\* no virtual resource and no shift, and the result then shown has the
\* allocations, statuses and deficits of the result first shown.
C25_ResetRestores ==
    pc = "reset" =>
        /\ priorityOrder = [i \in DOMAIN projects |-> projects[i].id]
        /\ virtualResources = <<>>
        /\ timelineShifts = <<>>
        /\ Allocation(Result)
              = Allocation(FromLoaded(Lever([i \in DOMAIN projects |-> projects[i].id],
                                            <<>>, <<>>), 0))

\* A reset later than the first render.
C25_Witness ==
    /\ pc = "reset"
    /\ clock > 0
    /\ totalDeficit > 0

====
